---------------------------- MODULE Spec2Model ----------------------------
(***************************************************************************)
(* A model of src/js/app.js: three points placed on a canvas, the          *)
(* parallelogram and the circle derived from them, and the dragging of a   *)
(* placed point.                                                           *)
(*                                                                         *)
(* Numbers.  Every length is an integer count of quarter pixels, so that   *)
(* the radius 5.5 of a Point is 22 and the halving in Stage._calculate is  *)
(* exact on the even coordinates the pointer delivers.  A computed number  *)
(* is kept as the exact real one (the error in the last places of a double *)
(* is left out), but whether Stage._calculateArea computes a number at all *)
(* or NaN is decided as the doubles decide it, bit for bit.                *)
(*                                                                         *)
(* Objects.  A Point is an object with an identity: heap maps the          *)
(* identifiers of the Points that are still referenced (by the Stage's     *)
(* list or by the controller's variable point) to their fields.            *)
(***************************************************************************)
EXTENDS Integers, Sequences, FiniteSets, TLC

\* Bounds of the model.
MaxX == 1
MaxPoints == 4

\* Pointer positions (canvas-local).  The columns are one radius apart, so
\* that neighbouring columns lie exactly on the edge of each other's hit
\* square; a column further right is also one radius further down, so that
\* a drag has an offset in x and in y; the two rows are further apart than
\* any hit square reaches.
Xs == {22 * k : k \in 0..MaxX}
Rows == {0, 48}
Pointer == {[x |-> x, y |-> x + r] : x \in Xs, r \in Rows}

\* Object identifiers.  The Stage's i-th point is object i.  An object the
\* Stage has dropped and the controller still refers to is object Detached:
\* an identifier is an address, and _reset is where the model moves the
\* object (no program can tell).
ObjIds == 1..MaxPoints
Detached == MaxPoints + 1

VARIABLES
    heap,       \* Point objects: id -> [x, y, radius]
    stage,      \* the Stage: [points, center, area, ctx]
    view,       \* the View's elements: label -> text
    listeners,  \* event types of the canvas that have their handler attached
    point,      \* the controller's drag target: null or Ref(id)
    dx,         \* the controller's offset: undefined or Num(n)
    dy,
    e           \* the event whose handler ran last

vars == <<heap, stage, view, listeners, point, dx, dy, e>>

-----------------------------------------------------------------------------
\* JavaScript values.  A slot that may hold null or undefined holds a
\* sequence: empty for null or undefined, <<v>> for the value v; the number
\* NaN (0 / 0) is the sequence <<0, 0>>.
null == <<>>
undefined == << >>
Num(n) == <<n>>
Ref(id) == <<id>>
Val(b) == b[1]
NaN == <<0, 0>>
isNaN(b) == Len(b) = 2

Abs(n) == IF n < 0 THEN -n ELSE n

-----------------------------------------------------------------------------
\* Point

\* this.radius = 5.5, in quarter pixels
radius == 22

\* new Point(x, y)
Point(x, y) == [x |-> x, y |-> y, radius |-> radius]

\* Point.prototype.draw: a red circle of the point's radius around it
Point_draw(this, ctx) ==
    LET arc == [shape |-> "point", x |-> this.x, y |-> this.y,
                radius |-> this.radius, strokeStyle |-> "#ff0000"]
    IN  [pixels |-> Append(ctx.pixels, arc), calls |-> Append(ctx.calls, arc)]

\* Point.prototype.contains with the left edge left out of the square
Point_contains_strict(this, x, y) ==
    /\ this.x - this.radius < x
    /\ this.x + this.radius >= x
    /\ this.y - this.radius <= y
    /\ this.y + this.radius >= y

\* Point.prototype.contains
Point_contains(this, x, y) ==
    /\ this.x - this.radius <= x
    /\ this.x + this.radius >= x
    /\ this.y - this.radius <= y
    /\ this.y + this.radius >= y

-----------------------------------------------------------------------------
\* Real functions of the JavaScript Math object, on the values that occur.

\* the largest r in lo..hi with r * r <= n
RECURSIVE SqrtFloor(_, _, _)
SqrtFloor(n, lo, hi) ==
    IF lo = hi
    THEN lo
    ELSE LET mid == (lo + hi + 1) \div 2
         IN  IF mid * mid <= n THEN SqrtFloor(n, mid, hi)
                               ELSE SqrtFloor(n, lo, mid - 1)

\* Math.sqrt(n) of a perfect square n (no value for any other n)
Sqrt(n) ==
    CHOOSE r \in {SqrtFloor(n, 0, IF n < 46340 THEN n ELSE 46340)} : r * r = n

\* Natural numbers of any size, for the 53-bit significands of doubles and
\* their products: sequences of limbs below 2^15, least significant first,
\* without leading zero limbs.  (An operator that reads a number more than
\* once takes it as the element of a one-element set, which is computed
\* once.)
Limb == 2^15

Only(S) == CHOOSE r \in S : TRUE

RECURSIVE BitLen(_)
BitLen(n) == IF n = 0 THEN 0 ELSE 1 + BitLen(n \div 2)

BigTrim(a) ==
    Only({SubSeq(x, 1, IF \E i \in 1..Len(x) : x[i] # 0
                       THEN CHOOSE i \in 1..Len(x) :
                                x[i] # 0 /\ \A j \in (i + 1)..Len(x) : x[j] = 0
                       ELSE 0) : x \in {a}})

BigOfInt(n) ==
    BigTrim(<<n % Limb, (n \div Limb) % Limb, n \div (Limb * Limb)>>)

\* a * m + c for limbs m and c
RECURSIVE BigMulAdd(_, _, _)
BigMulAdd(a, m, c) ==
    IF a = <<>>
    THEN IF c = 0 THEN <<>> ELSE <<c>>
    ELSE Only({<<v % Limb>> \o BigMulAdd(t, m, v \div Limb) :
                  v \in {a[1] * m + c}, t \in {Tail(a)}})

\* a + b + c for a carry c
RECURSIVE BigAddCarry(_, _, _)
BigAddCarry(a, b, c) ==
    IF a = <<>> /\ b = <<>>
    THEN IF c = 0 THEN <<>> ELSE <<c>>
    ELSE Only({<<v % Limb>> \o BigAddCarry(ta, tb, v \div Limb) :
                  v \in {(IF a = <<>> THEN 0 ELSE a[1])
                         + (IF b = <<>> THEN 0 ELSE b[1]) + c},
                  ta \in {IF a = <<>> THEN a ELSE Tail(a)},
                  tb \in {IF b = <<>> THEN b ELSE Tail(b)}})

BigAdd(a, b) == Only({BigAddCarry(x, y, 0) : x \in {a}, y \in {b}})

RECURSIVE BigMulLimbs(_, _)
BigMulLimbs(a, b) ==
    IF b = <<>>
    THEN <<>>
    ELSE BigAdd(BigMulAdd(a, b[1], 0),
                Only({<<0>> \o BigMulLimbs(a, t) : t \in {Tail(b)}}))

BigMul(a, b) == BigTrim(Only({BigMulLimbs(x, y) : x \in {a}, y \in {b}}))

\* a * 2^n
BigShl(a, n) ==
    Only({IF x = <<>>
          THEN x
          ELSE [i \in 1..(n \div 15) |-> 0] \o BigMulAdd(x, 2^(n % 15), 0) :
             x \in {a}})

BigLess(a, b) ==
    \E x \in {a}, y \in {b} :
        \/ Len(x) < Len(y)
        \/ /\ Len(x) = Len(y)
           /\ \E i \in 1..Len(x) :
                x[i] < y[i] /\ \A j \in (i + 1)..Len(x) : x[j] = y[j]

BigBitLen(a) ==
    Only({IF x = <<>> THEN 0 ELSE 15 * (Len(x) - 1) + BitLen(x[Len(x)]) :
             x \in {a}})

\* the largest r that has the bits of r0 above bit i, any bits from bit i
\* down to bit j, and r * r <= n
RECURSIVE BigSqrtBits(_, _, _, _)
BigSqrtBits(n, r0, i, j) ==
    IF i < j
    THEN r0
    ELSE Only({BigSqrtBits(n, r, i - 1, j) :
                  r \in {IF BigLess(n, BigMul(c, c)) THEN r0 ELSE c :
                            c \in {BigAdd(r0, BigShl(<<1>>, i))}}})

\* the largest r below 2^53 with r * r <= n, found in four runs of bits
BigSqrtFloor(n) ==
    Only({BigSqrtBits(n, r3, 12, 0) :
             r3 \in {BigSqrtBits(n, r2, 25, 13) :
                        r2 \in {BigSqrtBits(n, r1, 38, 26) :
                                   r1 \in {BigSqrtBits(n, <<>>, 52, 39)}}}})

\* the integer nearest to sqrt(n), for an n whose root is below 2^53
BigSqrt(n) ==
    Only({IF BigLess(BigAdd(BigMul(f, f), f), n) THEN BigAdd(f, <<1>>) ELSE f :
             f \in {BigSqrtFloor(n)}})

\* Math.sqrt(s) of an integer s > 0, as a double: the record [m, k] is the
\* number m * 2^-k, where m is the integer nearest to sqrt(s * 4^k) and k
\* puts that root in 2^52 .. 2^53 (a significand of 53 bits; the root of an
\* integer is never half way between two of them).
SqrtDouble(s) ==
    Only({[m |-> BigSqrt(n), k |-> k] :
             <<k, n>> \in {<<k0, BigShl(BigOfInt(s), 2 * k0)>> :
                              k0 \in {(106 - BitLen(s)) \div 2}}})

\* the sides (p1 - p2, p3 - p2) the pointer positions give rise to, and the
\* doubles Math.sqrt returns for their squared lengths, computed once
Sides ==
    {[x |-> 22 * k, y |-> 22 * k + r] :
        k \in -(MaxX + 2)..(MaxX + 2), r \in {-48, 0, 48}}

SqrtDoubleOfSides ==
    [s \in {v.x * v.x + v.y * v.y : v \in Sides} \ {0} |-> SqrtDouble(s)]

Math_sqrt(s) ==
    IF s \in DOMAIN SqrtDoubleOfSides THEN SqrtDoubleOfSides[s] ELSE SqrtDouble(s)

\* Whether |dot / (d1 * d2)|, computed in doubles, exceeds 1, where s1 and
\* s2 are the squares of d1 and d2.  With
\* d1 = m1 * 2^-k1 and d2 = m2 * 2^-k2, the product d1 * d2 is p = m1 * m2
\* rounded to 53 bits (times 2^-(k1 + k2)); |dot| is an integer and a double
\* itself, so the quotient exceeds 1 exactly when the rounded product is
\* below |dot|, that is when p lies below the point half way between
\* T = |dot| * 2^(k1 + k2) and the double before T, which is u below T (a
\* tie would round to T, whose significand is even).
QuotientAboveOne(s1, s2, dot) ==
    \E r1 \in {Math_sqrt(s1)}, r2 \in {Math_sqrt(s2)}, d \in {Abs(dot)} :
        /\ d # 0
        /\ \E p \in {BigMul(r1.m, r2.m)}, t \in {BigShl(BigOfInt(d), r1.k + r2.k)} :
             \E u \in {BigShl(<<1>>, BigBitLen(t)
                                      - (IF d = 2^(BitLen(d) - 1) THEN 54 ELSE 53))} :
                BigLess(BigAdd(BigAdd(p, p), u), BigAdd(t, t))

\* QuotientAboveOne of every pair of sides, computed once
QuotientAboveOneOfSides ==
    [a \in {<<v1.x * v1.x + v1.y * v1.y, v2.x * v2.x + v2.y * v2.y,
              v1.x * v2.x + v1.y * v2.y>> :
                v1 \in Sides \ {[x |-> 0, y |-> 0]},
                v2 \in Sides \ {[x |-> 0, y |-> 0]}}
        |-> QuotientAboveOne(a[1], a[2], a[3])]

\* whether t = dot / (d1 * d2) is outside [-1, 1], where Math.acos(t) is NaN
AcosOutOfRange(s1, s2, dot) ==
    IF <<s1, s2, dot>> \in DOMAIN QuotientAboveOneOfSides
    THEN QuotientAboveOneOfSides[<<s1, s2, dot>>]
    ELSE QuotientAboveOne(s1, s2, dot)

\* d1 * d2 * Math.sin(Math.acos(t)) for t = dot / (d1 * d2), where s1 and s2
\* are the squares of d1 and d2: NaN when t is outside [-1, 1]; otherwise
\* sin(acos(t)) = sqrt(1 - t^2), so the product is sqrt(s1 * s2 - dot^2).
MulSinAcos(s1, s2, dot) ==
    IF AcosOutOfRange(s1, s2, dot) THEN NaN ELSE Num(Sqrt(s1 * s2 - dot * dot))

\* Math.sqrt(area / Math.PI) of the stored area, kept symbolic: it is 0
\* exactly when area is 0, and NaN exactly when area is NaN.
SqrtOverPI(a) == [sqrt |-> [num |-> a, den |-> "PI"]]

\* Math.round(area) of an area counted in squares of a quarter pixel
Round(a) == (a + 8) \div 16

-----------------------------------------------------------------------------
\* Stage: a record [points, center, area, ctx]; ctx is the canvas context,
\* [pixels |-> what has been drawn since the surface was last cleared,
\*  calls  |-> the render calls of the handler that is running].
\* h is the heap the Stage's points live in.

\* new Stage(canvas)
Stage(ctx) == [points |-> <<>>, center |-> null, area |-> null, ctx |-> ctx]

\* Stage.prototype._clear
Stage__clear(this) ==
    [this EXCEPT !.ctx = [pixels |-> <<>>,
                          calls |-> Append(@.calls, [shape |-> "clear"])]]

\* Stage.prototype._calculateArea without the test (d1 && d2): the quotient
\* 0 / 0 is NaN
Stage__calculateArea_unguarded(this, h) ==
    LET p1 == h[this.points[1]]
        p2 == h[this.points[2]]
        p3 == h[this.points[3]]
        x1 == p1.x - p2.x
        x2 == p3.x - p2.x
        y1 == p1.y - p2.y
        y2 == p3.y - p2.y
        s1 == x1 * x1 + y1 * y1
        s2 == x2 * x2 + y2 * y2
    IN  [this EXCEPT !.area =
            IF s1 # 0 /\ s2 # 0
            THEN MulSinAcos(s1, s2, x1 * x2 + y1 * y2)
            ELSE NaN]

\* Stage.prototype._calculateArea with the second side taken from p1, not
\* from p2
Stage__calculateArea_fromP1(this, h) ==
    LET p1 == h[this.points[1]]
        p2 == h[this.points[2]]
        p3 == h[this.points[3]]
        x1 == p1.x - p2.x
        x2 == p3.x - p1.x
        y1 == p1.y - p2.y
        y2 == p3.y - p1.y
        s1 == x1 * x1 + y1 * y1
        s2 == x2 * x2 + y2 * y2
    IN  [this EXCEPT !.area =
            IF s1 # 0 /\ s2 # 0
            THEN MulSinAcos(s1, s2, x1 * x2 + y1 * y2)
            ELSE Num(0)]

\* Stage.prototype._calculateArea
Stage__calculateArea(this, h) ==
    LET p1 == h[this.points[1]]
        p2 == h[this.points[2]]
        p3 == h[this.points[3]]
        x1 == p1.x - p2.x
        x2 == p3.x - p2.x
        y1 == p1.y - p2.y
        y2 == p3.y - p2.y
        s1 == x1 * x1 + y1 * y1
        s2 == x2 * x2 + y2 * y2
    IN  [this EXCEPT !.area =
            IF s1 # 0 /\ s2 # 0
            THEN MulSinAcos(s1, s2, x1 * x2 + y1 * y2)
            ELSE Num(0)]

\* Stage.prototype._calculate with the center between the first and the
\* second point
Stage__calculate_firstTwo(this, h) ==
    LET p1 == h[this.points[1]]
        p2 == h[this.points[2]]
    IN  Stage__calculateArea(
            [this EXCEPT !.center = [x |-> (p1.x + p2.x) \div 2,
                                     y |-> (p1.y + p2.y) \div 2]], h)

\* Stage.prototype._calculate
Stage__calculate(this, h) ==
    LET p1 == h[this.points[1]]
        p2 == h[this.points[3]]
    IN  Stage__calculateArea(
            [this EXCEPT !.center = [x |-> (p1.x + p2.x) \div 2,
                                     y |-> (p1.y + p2.y) \div 2]], h)

\* FourthPoint with the side p1-p2 added to p3.x, not subtracted
FourthPoint_added(p1, p2, p3) ==
    [x |-> p3.x + (p2.x - p1.x), y |-> p1.y + (p3.y - p2.y)]

\* the fourth point of the parallelogram (Stage.prototype._draw, var p4)
FourthPoint(p1, p2, p3) ==
    [x |-> p3.x - (p2.x - p1.x), y |-> p1.y + (p3.y - p2.y)]

\* Stage.prototype._draw.  The context ignores an arc whose radius is NaN:
\* the call is made and returns, and nothing is added to the surface.
Stage__draw(this, h) ==
    LET p1 == h[this.points[1]]
        p2 == h[this.points[2]]
        p3 == h[this.points[3]]
        p4 == FourthPoint(p1, p2, p3)
        xy(p) == [x |-> p.x, y |-> p.y]
        polygon == [shape |-> "polygon",
                    vertices |-> <<xy(p1), xy(p2), xy(p3), p4>>,
                    strokeStyle |-> "#0000ff"]
        circle == [shape |-> "circle", center |-> this.center,
                   r |-> SqrtOverPI(this.area), strokeStyle |-> "#00ff00"]
    IN  [this EXCEPT !.ctx = [pixels |-> @.pixels \o (IF isNaN(this.area)
                                                      THEN <<polygon>>
                                                      ELSE <<polygon, circle>>),
                              calls |-> @.calls \o <<polygon, circle>>]]

\* Stage.prototype._check
Stage__check(this, h) ==
    IF 3 = Len(this.points)
    THEN Stage__draw(Stage__calculate(this, h), h)
    ELSE this

\* Stage.prototype.addPoint; pt is the identifier of the point, which is in h
Stage_addPoint(this, h, pt) ==
    LET pushed == [this EXCEPT !.points = Append(@, pt)]
        drawn == [pushed EXCEPT !.ctx = Point_draw(h[pt], @)]
    IN  Stage__check(drawn, h)

\* the loop of Stage.prototype.draw, from index i on
RECURSIVE Stage_drawPoints(_, _, _)
Stage_drawPoints(this, h, i) ==
    IF i <= Len(this.points)
    THEN Stage_drawPoints(
             [this EXCEPT !.ctx = Point_draw(h[this.points[i]], @)], h, i + 1)
    ELSE this

\* Stage.prototype.draw without its last call, this._check()
Stage_draw_noCheck(this, h) == Stage_drawPoints(Stage__clear(this), h, 1)

\* Stage.prototype.draw with this._check() before the loop, not after it
Stage_draw_checkFirst(this, h) ==
    Stage_drawPoints(Stage__check(Stage__clear(this), h), h, 1)

\* Stage.prototype.draw
Stage_draw(this, h) ==
    Stage__check(Stage_drawPoints(Stage__clear(this), h, 1), h)

\* Stage.prototype.reset without this.center = null
Stage_reset_keepCenter(this) ==
    [Stage__clear(this) EXCEPT !.points = <<>>, !.area = null]

\* Stage.prototype.reset
Stage_reset(this) ==
    [Stage__clear(this) EXCEPT !.points = <<>>, !.center = null, !.area = null]

-----------------------------------------------------------------------------
\* View: the text of the elements point1, point2, point3 and area; '' is
\* null, 'x: ' + x + ' y: ' + y is <<x, y>>, the text of a number n is <<n>>,
\* the text of NaN is NaN.

Labels == {"point1", "point2", "point3", "area"}

PointLabel(i) == CASE i = 1 -> "point1" [] i = 2 -> "point2" [] i = 3 -> "point3"

\* View.prototype.update.  With more than 3 points the loop reaches the
\* element 'point4', which does not exist, and the assignment to its
\* textContent throws before the area is written.
View_update(elements, this, h) ==
    [l \in Labels |->
        IF l = "area"
        THEN IF Len(this.points) > 3 THEN elements[l]
             ELSE IF this.area = null THEN null
             ELSE IF isNaN(this.area) THEN NaN
             ELSE Num(Round(Val(this.area)))
        ELSE IF \E i \in 1..Len(this.points) : i <= 3 /\ PointLabel(i) = l
             THEN LET i == CHOOSE j \in 1..3 : PointLabel(j) = l
                  IN  <<h[this.points[i]].x, h[this.points[i]].y>>
             ELSE elements[l]]

\* View.prototype.reset
View_reset(elements) == [l \in Labels |-> null]

-----------------------------------------------------------------------------
\* The application: the controller's variables and the handlers.

\* canvas.offsetLeft and canvas.offsetTop: where the page puts the canvas
offsetLeft == 8
offsetTop == 4

\* the mouse events of type t the pointer can deliver
MouseEvents(t) ==
    {[type |-> t, target |-> "canvas",
      pageX |-> offsetLeft + p.x, pageY |-> offsetTop + p.y] : p \in Pointer}

\* the mouseup events: one position, since no handler reads it
MouseUpEvents ==
    {[type |-> "mouseup", target |-> "canvas",
      pageX |-> offsetLeft, pageY |-> offsetTop]}

\* _getCoords
_getCoords(ev) == [x |-> ev.pageX - offsetLeft, y |-> ev.pageY - offsetTop]

\* the identifiers of the Points that are referenced: the others are garbage
Live(pts, target) ==
    {pts[i] : i \in 1..Len(pts)} \cup (IF target = null THEN {} ELSE {Val(target)})

\* the heap h without its garbage
Collect(h, pts, target) == [id \in DOMAIN h \cap Live(pts, target) |-> h[id]]

\* the identifier new gives the next object
NewId(h) == CHOOSE id \in ObjIds \ DOMAIN h : \A o \in ObjIds \ DOMAIN h : id <= o

\* the Stage as a handler finds it: no render call made yet
Enter(this) == [this EXCEPT !.ctx.calls = <<>>]

\* StartDragging with the click listener left attached
StartDragging_keepClick(ls) == ls \cup {"mousedown", "mouseup", "mousemove"}

\* the listeners of the canvas after the third point (_addPoint, the if)
StartDragging(ls) == (ls \ {"click"}) \cup {"mousedown", "mouseup", "mousemove"}

\* StartPlacing without the click listener attached again
StartPlacing_noClick(ls) == ls \ {"mousedown", "mouseup", "mousemove"}

\* StartPlacing with the listeners of the drag left attached
StartPlacing_keepDrag(ls) == ls \cup {"click"}

\* the listeners of the canvas after _reset
StartPlacing(ls) == (ls \cup {"click"}) \ {"mousedown", "mouseup", "mousemove"}

\* _addPoint, the handler of the canvas's click
_addPoint(ev) ==
    /\ ev.type \in listeners
    /\ ObjIds \ DOMAIN heap # {}
    /\ LET coords == _getCoords(ev)
           id == NewId(heap)
           h == (id :> Point(coords.x, coords.y)) @@ heap
           st == Stage_addPoint(Enter(stage), h, id)
       IN  /\ heap' = h
           /\ stage' = st
           /\ view' = View_update(view, st, h)
           /\ listeners' = IF 3 = Len(st.points) THEN StartDragging(listeners)
                                                 ELSE listeners
    /\ e' = ev
    /\ UNCHANGED <<point, dx, dy>>

\* StartMoveLoop with dx and dy written by the first hit only, the point by
\* every hit
RECURSIVE StartMoveLoop_firstOffset(_, _, _, _, _)
StartMoveLoop_firstOffset(i, pts, h, coords, c) ==
    IF i >= 1
    THEN StartMoveLoop_firstOffset(i - 1, pts, h, coords,
             IF Point_contains(h[pts[i]], coords.x, coords.y)
             THEN IF \E j \in (i + 1)..Len(pts) :
                        Point_contains(h[pts[j]], coords.x, coords.y)
                  THEN [c EXCEPT !.point = Ref(pts[i])]
                  ELSE [point |-> Ref(pts[i]),
                        dx |-> Num(coords.x - h[pts[i]].x),
                        dy |-> Num(coords.y - h[pts[i]].y)]
             ELSE c)
    ELSE c

\* the loop of _startMove, from index i down: c is [point, dx, dy]
RECURSIVE StartMoveLoop(_, _, _, _, _)
StartMoveLoop(i, pts, h, coords, c) ==
    IF i >= 1
    THEN StartMoveLoop(i - 1, pts, h, coords,
             IF Point_contains(h[pts[i]], coords.x, coords.y)
             THEN [point |-> Ref(pts[i]),
                   dx |-> Num(coords.x - h[pts[i]].x),
                   dy |-> Num(coords.y - h[pts[i]].y)]
             ELSE c)
    ELSE c

\* _startMove, the handler of the canvas's mousedown
_startMove(ev) ==
    /\ ev.type \in listeners
    /\ LET coords == _getCoords(ev)
           c == StartMoveLoop(Len(stage.points), stage.points, heap, coords,
                              [point |-> point, dx |-> dx, dy |-> dy])
       IN  /\ point' = c.point
           /\ dx' = c.dx
           /\ dy' = c.dy
           /\ heap' = Collect(heap, stage.points, c.point)
    /\ stage' = Enter(stage)
    /\ e' = ev
    /\ UNCHANGED <<view, listeners>>

\* _stopMove without point = null
_stopMove_keepTarget(ev) ==
    /\ ev.type \in listeners
    /\ stage' = Enter(stage)
    /\ e' = ev
    /\ UNCHANGED <<heap, view, listeners, point, dx, dy>>

\* _stopMove, the handler of the canvas's mouseup
_stopMove(ev) ==
    /\ ev.type \in listeners
    /\ point' = null
    /\ heap' = Collect(heap, stage.points, null)
    /\ stage' = Enter(stage)
    /\ e' = ev
    /\ UNCHANGED <<view, listeners, dx, dy>>

\* MovePoint with the offset added, not subtracted
MovePoint_added(h, id, coords, ox, oy) ==
    [h EXCEPT ![id].x = coords.x + ox, ![id].y = coords.y + oy]

\* the assignments of _move to point.x and point.y, on object id of h
MovePoint(h, id, coords, ox, oy) ==
    [h EXCEPT ![id].x = coords.x - ox, ![id].y = coords.y - oy]

\* _move with the redraw and the update after the if, not inside it
_move_redrawAlways(ev) ==
    /\ ev.type \in listeners
    /\ LET coords == _getCoords(ev)
           h == IF null # point
                THEN MovePoint(heap, Val(point), coords, Val(dx), Val(dy))
                ELSE heap
           st == Stage_draw(Enter(stage), h)
       IN  /\ heap' = h
           /\ stage' = st
           /\ view' = View_update(view, st, h)
    /\ e' = ev
    /\ UNCHANGED <<listeners, point, dx, dy>>

\* _move, the handler of the canvas's mousemove
_move(ev) ==
    /\ ev.type \in listeners
    /\ IF null # point
       THEN LET coords == _getCoords(ev)
                h == MovePoint(heap, Val(point), coords, Val(dx), Val(dy))
                st == Stage_draw(Enter(stage), h)
            IN  /\ heap' = h
                /\ stage' = st
                /\ view' = View_update(view, st, h)
       ELSE /\ stage' = Enter(stage)
            /\ UNCHANGED <<heap, view>>
    /\ e' = ev
    /\ UNCHANGED <<listeners, point, dx, dy>>

\* the click of the reset button
ResetClick == [type |-> "click", target |-> "reset"]

\* _reset, the handler of the reset button's click.  The points leave the
\* Stage; the one the controller holds, if any, lives on as Detached.
_reset ==
    /\ stage' = Stage_reset(Enter(stage))
    /\ view' = View_reset(view)
    /\ listeners' = StartPlacing(listeners)
    /\ heap' = IF point = null THEN <<>> ELSE Detached :> heap[Val(point)]
    /\ point' = IF point = null THEN null ELSE Ref(Detached)
    /\ e' = ResetClick
    /\ UNCHANGED <<dx, dy>>

\* _init, the handler of the window's load: the state the events start from
Init ==
    /\ heap = <<>>
    /\ stage = Stage_reset(Stage([pixels |-> <<>>, calls |-> <<>>]))
    /\ view = View_reset([l \in Labels |-> null])
    /\ listeners = StartPlacing({})
    /\ point = null
    /\ dx = undefined
    /\ dy = undefined
    /\ e = [type |-> "load", target |-> "window"]

Next ==
    \/ \E ev \in MouseEvents("click") : _addPoint(ev)
    \/ \E ev \in MouseEvents("mousedown") : _startMove(ev)
    \/ \E ev \in MouseUpEvents : _stopMove(ev)
    \/ \E ev \in MouseEvents("mousemove") : _move(ev)
    \/ _reset

Spec == Init /\ [][Next]_vars

-----------------------------------------------------------------------------
\* The Stage on its own: its public methods called in any order by a caller
\* that is not the application (which never calls addPoint on a full Stage).

StageCall(method) == [type |-> "call", target |-> method]

\* stage.addPoint(new Point(x, y))
Call_addPoint(x, y) ==
    /\ Len(stage.points) < MaxPoints
    /\ LET id == NewId(heap)
           h == (id :> Point(x, y)) @@ heap
       IN  /\ heap' = h
           /\ stage' = Stage_addPoint(Enter(stage), h, id)
    /\ e' = StageCall("addPoint")
    /\ UNCHANGED <<view, listeners, point, dx, dy>>

\* stage.draw()
Call_draw ==
    /\ stage' = Stage_draw(Enter(stage), heap)
    /\ e' = StageCall("draw")
    /\ UNCHANGED <<heap, view, listeners, point, dx, dy>>

\* stage.reset()
Call_reset ==
    /\ stage' = Stage_reset(Enter(stage))
    /\ heap' = <<>>
    /\ e' = StageCall("reset")
    /\ UNCHANGED <<view, listeners, point, dx, dy>>

NextStage ==
    \/ \E p \in Pointer : Call_addPoint(p.x, p.y)
    \/ Call_draw
    \/ Call_reset

SpecStage == Init /\ [][NextStage]_vars

-----------------------------------------------------------------------------
\* A Point on its own: new Point(x, y) at a pointer position, then contains
\* called with coordinates inside, on and just beyond each edge of the
\* point's square.

Probes == {-(radius + 1), -radius, -(radius - 1), 0, radius - 1, radius, radius + 1}

InitContains ==
    /\ heap = <<>>
    /\ stage = Stage_reset(Stage([pixels |-> <<>>, calls |-> <<>>]))
    /\ view = View_reset([l \in Labels |-> null])
    /\ listeners = {}
    /\ point = null
    /\ dx = undefined
    /\ dy = undefined
    /\ \E p \in Pointer :
         e = [type |-> "new", target |-> "Point", this |-> Point(p.x, p.y)]

\* e.this.contains(x, y)
Call_contains(x, y) ==
    /\ e' = [type |-> "call", target |-> "contains", this |-> e.this,
             x |-> x, y |-> y, result |-> Point_contains(e.this, x, y)]
    /\ UNCHANGED <<heap, stage, view, listeners, point, dx, dy>>

NextContains ==
    \E p \in Pointer, ox \in Probes, oy \in Probes : Call_contains(p.x + ox, p.y + oy)

SpecContains == InitContains /\ [][NextContains]_vars

-----------------------------------------------------------------------------
\* Shorthands of the properties below.

\* the Stage's i-th point
PointAt(i) == heap[stage.points[i]]

\* the indices of the points of pts whose hit square holds c
HitIndices(h, pts, c) ==
    {i \in 1..Len(pts) : Point_contains(h[pts[i]], c.x, c.y)}

Max(S) == CHOOSE m \in S : \A o \in S : o <= m

\* the event handled last came from the canvas and is of type t
Handled(t) == e.target = "canvas" /\ e.type = t

\* the controller's target is one of the Stage's points
TargetOnStage ==
    /\ point # null
    /\ \E i \in 1..Len(stage.points) : stage.points[i] = Val(point)

-----------------------------------------------------------------------------
\* C1.  Under any sequence of UI events (click, mousedown, mousemove,
\* mouseup, reset click) from initialisation on, the Stage's list of points
\* never holds more than 3 points.
C1_AtMostThreePoints == Len(stage.points) <= 3

\* C1's case: three points are placed, the click listener is gone, and a
\* drag is moving one of them.
C1_Witness ==
    /\ Len(stage.points) = 3
    /\ "click" \notin listeners
    /\ Handled("mousemove")
    /\ TargetOnStage

\* C2.  Stage.addPoint called on a Stage that holds 3 points leaves the list
\* at length 3 and leaves center and area as they were.  (The code appends
\* the fourth point.)
C2_AddPointWhenComplete ==
    [][(e' = StageCall("addPoint") /\ Len(stage.points) = 3)
        => /\ Len(stage'.points) = 3
           /\ stage'.center = stage.center
           /\ stage'.area = stage.area]_vars

\* C3.  A mousedown with 3 points placed whose coordinates lie in the hit
\* squares of two or more points makes the last added of those points (the
\* highest index) the drag target.  (The code's loop does not stop at the
\* first hit, so the first added of them ends as the target.)
C3_LastAddedWins ==
    [][(/\ e'.target = "canvas"
        /\ e'.type = "mousedown"
        /\ Len(stage.points) = 3
        /\ Cardinality(HitIndices(heap, stage.points, _getCoords(e'))) >= 2)
        => point' =
             Ref(stage.points[Max(HitIndices(heap, stage.points, _getCoords(e')))])]_vars

\* C4.  In every state the UI events reach, center and area are present
\* exactly when the Stage holds 3 points; with fewer points, and so after a
\* reset, both are null.
C4_DerivedIffComplete ==
    /\ (stage.center # null) <=> (Len(stage.points) = 3)
    /\ (stage.area # null) <=> (Len(stage.points) = 3)

\* C4's case: the Stage is complete for the second time at least (the
\* controller still holds a point of an earlier round, dropped by a reset).
C4_Witness ==
    /\ Len(stage.points) = 3
    /\ stage.center # null
    /\ stage.area # null
    /\ point = Ref(Detached)

\* C5.  After every handler, a Stage of 3 points stores the midpoint of the
\* current first and third points as center and the area of the current
\* points 1, 2, 3 as area: neither is stale.
C5_DerivedFresh ==
    Len(stage.points) = 3 =>
        /\ 2 * stage.center.x = PointAt(1).x + PointAt(3).x
        /\ 2 * stage.center.y = PointAt(1).y + PointAt(3).y
        /\ stage.area = Stage__calculateArea(stage, heap).area

\* C5's case: a drag has just moved a point of the Stage off the positions
\* a click can place it at, and the parallelogram is not flat.
C5_Witness ==
    /\ Len(stage.points) = 3
    /\ Handled("mousemove")
    /\ TargetOnStage
    /\ heap[Val(point)].x \notin Xs
    /\ Val(stage.area) # 0

\* C6.  A mousemove at (px, py) with a drag target sets the target to
\* (px - dx, py - dy) and changes no other point, nor the list of points,
\* which holds 3; and dx, dy are the offset recorded by the mousedown that
\* chose the target: only a mousedown that hits writes them, as the pointer
\* minus the target it chooses, and no other handler chooses a target.
C6_MoveSetsTarget ==
    [][/\ (e'.target = "canvas" /\ e'.type = "mousemove" /\ point # null)
            => LET c == _getCoords(e')
                   t == Val(point)
               IN  /\ heap'[t].x = c.x - Val(dx)
                   /\ heap'[t].y = c.y - Val(dy)
                   /\ DOMAIN heap' = DOMAIN heap
                   /\ \A o \in DOMAIN heap \ {t} : heap'[o] = heap[o]
                   /\ stage'.points = stage.points
                   /\ Len(stage'.points) = 3
                   /\ point' = point
       /\ IF /\ e'.target = "canvas"
             /\ e'.type = "mousedown"
             /\ HitIndices(heap, stage.points, _getCoords(e')) # {}
          THEN /\ point' # null
               /\ dx' = Num(_getCoords(e').x - heap[Val(point')].x)
               /\ dy' = Num(_getCoords(e').y - heap[Val(point')].y)
          ELSE /\ dx' = dx
               /\ dy' = dy
               /\ \/ point' = point
                  \/ point' = null
                  \/ /\ e' = ResetClick
                     /\ point # null
                     /\ point' = Ref(Detached)
                     /\ heap'[Detached] = heap[Val(point)]]_vars

\* C6's case: a drag with an offset other than 0 has just moved a point of
\* the Stage.
C6_Witness ==
    /\ Handled("mousemove")
    /\ TargetOnStage
    /\ Val(dx) # 0
    /\ Val(dy) # 0
    /\ heap[Val(point)].x = _getCoords(e).x - Val(dx)
    /\ heap[Val(point)].y = _getCoords(e).y - Val(dy)
    /\ heap[Val(point)].x \notin Xs

\* C7 as claimed.  A mouseup clears the drag target and the recorded offset.
C7_StopMoveClearsOffset ==
    [][(e'.target = "canvas" /\ e'.type = "mouseup")
        => /\ point' = null
           /\ dx' = undefined
           /\ dy' = undefined]_vars

\* C7, amended.  A mouseup clears the drag target, which returns the
\* controller to READY, and leaves the recorded offset as it was.
C7_StopMoveClearsTarget ==
    [][(e'.target = "canvas" /\ e'.type = "mouseup")
        => /\ point' = null
           /\ dx' = dx
           /\ dy' = dy]_vars

\* C7's case: a mouseup has ended a drag, whose offset is still recorded.
C7_Witness ==
    /\ Handled("mouseup")
    /\ point = null
    /\ dx # undefined
    /\ dy # undefined

\* C8.  A mousemove without a drag target changes no point, neither center
\* nor area, and makes no render call: the surface stays as it was.
C8_MoveWithoutTarget ==
    [][(e'.target = "canvas" /\ e'.type = "mousemove" /\ point = null)
        => /\ heap' = heap
           /\ stage'.points = stage.points
           /\ stage'.center = stage.center
           /\ stage'.area = stage.area
           /\ stage'.ctx.pixels = stage.ctx.pixels
           /\ stage'.ctx.calls = <<>>
           /\ view' = view
           /\ UNCHANGED <<listeners, point, dx, dy>>]_vars

\* C8's case: a mousemove has been handled with 3 points and no target.
C8_Witness ==
    /\ Handled("mousemove")
    /\ point = null
    /\ Len(stage.points) = 3
    /\ stage.ctx.calls = <<>>

\* C9.  A reset in any state empties the list of points, sets center and
\* area to null, clears the surface and leaves click as the only listener
\* of the canvas; while fewer than 3 points are placed click stays the only
\* listener, and each click adds one point, at the pointer; and a reset
\* right after a reset changes nothing.
C9_Reset ==
    [][/\ e' = ResetClick
            => /\ stage'.points = <<>>
               /\ stage'.center = null
               /\ stage'.area = null
               /\ stage'.ctx.pixels = <<>>
               /\ stage'.ctx.calls = <<[shape |-> "clear"]>>
               /\ listeners' = {"click"}
       /\ Len(stage'.points) < 3 => listeners' = {"click"}
       /\ (e'.target = "canvas" /\ e'.type = "click" /\ Len(stage.points) < 3)
            => /\ Len(stage'.points) = Len(stage.points) + 1
               /\ SubSeq(stage'.points, 1, Len(stage.points)) = stage.points
               /\ heap'[stage'.points[Len(stage'.points)]] =
                      Point(_getCoords(e').x, _getCoords(e').y)
       /\ (e = ResetClick /\ e' = ResetClick) => UNCHANGED vars]_vars

\* C9's case: a reset has been handled while a drag was in progress.
C9_Witness ==
    /\ e = ResetClick
    /\ point # null
    /\ stage.points = <<>>
    /\ stage.ctx.pixels = <<>>

\* the polygons on the surface
Polygons ==
    {stage.ctx.pixels[k].vertices :
        k \in {j \in 1..Len(stage.ctx.pixels) :
                   stage.ctx.pixels[j].shape = "polygon"}}

\* C10.  The fourth vertex p4 drawn for the points p1, p2, p3 makes
\* (p1, p2, p3, p4) a parallelogram: p2 - p1 = p3 - p4 and p3 - p2 = p4 - p1.
C10_Parallelogram ==
    /\ Len(stage.points) = 3 => Polygons # {}
    /\ \A v \in Polygons :
        /\ \A i \in 1..3 : v[i] = [x |-> PointAt(i).x, y |-> PointAt(i).y]
        /\ v[2].x - v[1].x = v[3].x - v[4].x
        /\ v[2].y - v[1].y = v[3].y - v[4].y
        /\ v[3].x - v[2].x = v[4].x - v[1].x
        /\ v[3].y - v[2].y = v[4].y - v[1].y

\* C10's case: a parallelogram that is not flat is drawn through a point
\* that a drag has moved.
C10_Witness ==
    /\ Polygons # {}
    /\ Val(stage.area) # 0
    /\ Handled("mousemove")
    /\ TargetOnStage
    /\ heap[Val(point)].x \notin Xs

\* C11.  Point.contains(x, y) is true exactly when |x - p.x| <= radius and
\* |y - p.y| <= radius, with the radius 5.5 pixels (22 quarter pixels) and
\* all four edges of the square inside; it is false for every coordinate
\* outside the square.
C11_ContainsIsSquare ==
    e.target = "contains" =>
        /\ e.this.radius = 22
        /\ e.result <=> (Abs(e.x - e.this.x) <= 22 /\ Abs(e.y - e.this.y) <= 22)

\* C11's case: contains has answered true at the lower left corner of the
\* square, which is on two of its edges.
C11_Witness ==
    /\ e.target = "contains"
    /\ e.x = e.this.x - 22
    /\ e.y = e.this.y + 22
    /\ e.result

\* the circles on the surface
Circles ==
    {stage.ctx.pixels[j] :
        j \in {k \in 1..Len(stage.ctx.pixels) :
                   stage.ctx.pixels[k].shape = "circle"}}

\* C12.  When the first and second points coincide, or the second and
\* third, the area is exactly 0 and the radius of the circle derived from it
\* is exactly 0, and the derived shapes are computed and rendered all the
\* same: the center is stored, and the parallelogram through the points and
\* the circle of radius 0 around the center are on the surface.
C12_CoincidingPoints ==
    (Len(stage.points) = 3 /\ (PointAt(1) = PointAt(2) \/ PointAt(2) = PointAt(3)))
        => /\ stage.area = Num(0)
           /\ stage.center # null
           /\ Polygons # {}
           /\ Circles # {}
           /\ \A c \in Circles : c.center = stage.center /\ c.r = SqrtOverPI(Num(0))

\* C12's case: a drag has just put the second point on the third, away from
\* the first, and the circle of radius 0 is on the surface.
C12_Witness ==
    /\ Len(stage.points) = 3
    /\ PointAt(2) = PointAt(3)
    /\ PointAt(1) # PointAt(2)
    /\ Handled("mousemove")
    /\ TargetOnStage
    /\ Circles # {}
    /\ stage.area = Num(0)

\* the Stage with its first and third points exchanged
Exchanged ==
    [stage EXCEPT !.points = <<stage.points[3], stage.points[2], stage.points[1]>>]

\* C13.  The area computed for p1, p2, p3 is the area computed for
\* p3, p2, p1: exchanging the first and the third point leaves the result
\* of _calculateArea as it is.
C13_AreaSymmetric ==
    Len(stage.points) = 3 =>
        /\ stage.area = Stage__calculateArea(stage, heap).area
        /\ stage.area = Stage__calculateArea(Exchanged, heap).area

\* C13's case: an area other than 0 of three points whose sides from the
\* second point differ in length, one of them moved by a drag.
C13_Witness ==
    /\ Len(stage.points) = 3
    /\ ~isNaN(stage.area)
    /\ Val(stage.area) # 0
    /\ Handled("mousemove")
    /\ TargetOnStage
    /\ (PointAt(1).x - PointAt(2).x)^2 + (PointAt(1).y - PointAt(2).y)^2
         # (PointAt(3).x - PointAt(2).x)^2 + (PointAt(3).y - PointAt(2).y)^2

\* the cross product of the sides p1 - p2 and p3 - p2
Cross ==
    (PointAt(1).x - PointAt(2).x) * (PointAt(3).y - PointAt(2).y)
        - (PointAt(1).y - PointAt(2).y) * (PointAt(3).x - PointAt(2).x)

\* C14.  For any three points the computed area is the magnitude of the
\* cross product of the sides v1 = p1 - p2 and v2 = p3 - p2: it is a number,
\* it is not negative and its square is the square of the cross product, so
\* that the radius sqrt(area / pi) of the circle is always defined.  (In
\* doubles the quotient dot / (d1 * d2) of two parallel sides can exceed 1 in
\* the last place; Math.acos then returns NaN, and so are area and radius.)
C14_AreaIsCrossMagnitude ==
    Len(stage.points) = 3 =>
        /\ ~isNaN(stage.area)
        /\ Val(stage.area) >= 0
        /\ Val(stage.area) * Val(stage.area) = Cross * Cross
        /\ \A c \in Circles : ~isNaN(c.r.sqrt.num)

\* C15.  Placing and dragging exclude each other and follow the number of
\* points: a click is handled only with fewer than 3 points, and appends
\* exactly one point to the end of the list; mousedown, mousemove and
\* mouseup are handled only with exactly 3 points, and leave the list as it
\* is; and once the third point is placed only a reset takes a point off the
\* list or makes the canvas listen to clicks again.
C15_PlacingOrDragging ==
    [][/\ (e'.target = "canvas" /\ e'.type = "click")
            => /\ Len(stage.points) < 3
               /\ "click" \in listeners
               /\ Len(stage'.points) = Len(stage.points) + 1
               /\ SubSeq(stage'.points, 1, Len(stage.points)) = stage.points
               /\ \A i \in 1..Len(stage.points) :
                    heap'[stage.points[i]] = heap[stage.points[i]]
       /\ (e'.target = "canvas" /\ e'.type \in {"mousedown", "mousemove", "mouseup"})
            => /\ Len(stage.points) = 3
               /\ "click" \notin listeners
               /\ stage'.points = stage.points
               /\ listeners' = listeners
       /\ (Len(stage.points) = 3 /\ e' # ResetClick)
            => /\ Len(stage'.points) = 3
               /\ "click" \notin listeners'
       /\ "click" \in listeners' <=> Len(stage'.points) < 3
       /\ listeners' \cap {"mousedown", "mousemove", "mouseup"} # {}
            <=> Len(stage'.points) = 3]_vars

\* C15's case: after a round of three points and a drag, and the reset that
\* ended it, a click has placed the second point of the next round.
C15_Witness ==
    /\ Handled("click")
    /\ Len(stage.points) = 2
    /\ point = Ref(Detached)
    /\ listeners = {"click"}

\* C16.  Every Stage.draw makes its render calls in this order: one clear
\* of the surface, then one point per current point in the order of the
\* list, then, if and only if the list holds exactly 3 points, the polygon
\* (p1, p2, p3, p4) and after it the circle around the stored center; with
\* any other number of points no derived shape is drawn.
C16_DrawOrder ==
    [][e' = StageCall("draw") =>
        LET c == stage'.ctx.calls
            n == Len(stage.points)
            xy(i) == [x |-> PointAt(i).x, y |-> PointAt(i).y]
        IN  /\ Len(c) = 1 + n + (IF n = 3 THEN 2 ELSE 0)
            /\ c[1] = [shape |-> "clear"]
            /\ \A i \in 1..n :
                 /\ c[1 + i].shape = "point"
                 /\ [x |-> c[1 + i].x, y |-> c[1 + i].y] = xy(i)
            /\ n = 3 =>
                 /\ c[5].shape = "polygon"
                 /\ c[5].vertices =
                      <<xy(1), xy(2), xy(3),
                        [x |-> xy(1).x + xy(3).x - xy(2).x,
                         y |-> xy(1).y + xy(3).y - xy(2).y]>>
                 /\ c[6].shape = "circle"
                 /\ c[6].center = stage'.center
                 /\ stage'.center # null]_vars

\* C16's case: draw has been called on a Stage of 3 points that are not all
\* one point, and has made its 6 calls.
C16_Witness ==
    /\ e = StageCall("draw")
    /\ Len(stage.points) = 3
    /\ Len(stage.ctx.calls) = 6
    /\ PointAt(1) # PointAt(2)
    /\ PointAt(2) # PointAt(3)

\* C17.  With 3 points placed, a mousedown whose coordinates lie in no
\* point's hit square neither starts nor continues a drag: after it the
\* controller has no drag target, and the mousemove that follows it changes
\* no point.  (The code's _startMove writes point only on a hit, so a
\* target that no mouseup has cleared stays the target.)
C17_MissedMouseDown ==
    [][/\ (/\ e'.target = "canvas"
           /\ e'.type = "mousedown"
           /\ Len(stage.points) = 3
           /\ HitIndices(heap, stage.points, _getCoords(e')) = {})
            => point' = null
       /\ (/\ Handled("mousedown")
           /\ Len(stage.points) = 3
           /\ HitIndices(heap, stage.points, _getCoords(e)) = {}
           /\ e'.target = "canvas"
           /\ e'.type = "mousemove")
            => heap' = heap]_vars

\* C18.  In every state the UI events reach, a reset between a mousedown
\* and its mouseup included, the controller's drag target is absent or is
\* one of the points in the Stage's list: the controller never holds a point
\* the Stage no longer owns.  (The code's _reset empties the list and leaves
\* the variable point as it is.)
C18_TargetAbsentOrOnStage == point = null \/ TargetOnStage

\* C19.  Starting a drag never makes the point jump: after a mousedown at
\* (x, y) that hits one point or several overlapping ones, the offset
\* recorded is the offset of the point recorded as target, and a mousemove
\* to the same (x, y) right after it leaves the coordinates of every point
\* as they were.
C19_NoJump ==
    [][/\ (/\ e'.target = "canvas"
           /\ e'.type = "mousedown"
           /\ HitIndices(heap, stage.points, _getCoords(e')) # {})
            => /\ TargetOnStage'
               /\ dx' = Num(_getCoords(e').x - heap'[Val(point')].x)
               /\ dy' = Num(_getCoords(e').y - heap'[Val(point')].y)
       /\ (/\ Handled("mousedown")
           /\ HitIndices(heap, stage.points, _getCoords(e)) # {}
           /\ e'.target = "canvas"
           /\ e'.type = "mousemove"
           /\ e'.pageX = e.pageX
           /\ e'.pageY = e.pageY)
            => heap' = heap]_vars

\* C19's case: a mousemove has been handled at a position in the hit
\* squares of two points that lie apart, with the target, one of the two,
\* where the offset recorded for it puts it.
C19_Witness ==
    /\ Handled("mousemove")
    /\ TargetOnStage
    /\ \E i, j \in HitIndices(heap, stage.points, _getCoords(e)) :
         /\ PointAt(i) # PointAt(j)
         /\ stage.points[i] = Val(point)
    /\ Val(dx) # 0
    /\ heap[Val(point)].x = _getCoords(e).x - Val(dx)
    /\ heap[Val(point)].y = _getCoords(e).y - Val(dy)
    /\ heap[Val(point)].x \in Xs

\* C20.  Whenever 3 points are present, the stored center, the midpoint of
\* the first and the third point, is also the midpoint of the second point
\* and the fourth vertex drawn: p1 + p3 = p2 + p4 in x and in y, so the
\* circle is centred where the diagonals of the parallelogram drawn cross.
C20_CenterOnBothDiagonals ==
    Len(stage.points) = 3 =>
        /\ 2 * stage.center.x = PointAt(1).x + PointAt(3).x
        /\ 2 * stage.center.y = PointAt(1).y + PointAt(3).y
        /\ Polygons # {}
        /\ \A v \in Polygons :
             /\ v[2] = [x |-> PointAt(2).x, y |-> PointAt(2).y]
             /\ PointAt(1).x + PointAt(3).x = v[2].x + v[4].x
             /\ PointAt(1).y + PointAt(3).y = v[2].y + v[4].y
             /\ 2 * stage.center.x = v[2].x + v[4].x
             /\ 2 * stage.center.y = v[2].y + v[4].y
        /\ \A c \in Circles : c.center = stage.center

\* C20's case: a drag has just moved the third point, the parallelogram is
\* not flat, and the circle is on the surface, away from the second point.
C20_Witness ==
    /\ Len(stage.points) = 3
    /\ Handled("mousemove")
    /\ point = Ref(stage.points[3])
    /\ ~isNaN(stage.area)
    /\ Val(stage.area) # 0
    /\ Circles # {}
    /\ stage.center # [x |-> PointAt(2).x, y |-> PointAt(2).y]

=============================================================================
